---- MODULE Spec2Model ----
(***************************************************************************)
(* The WMS Orchestrator of prototype/orchestrator_logic.py: proposal       *)
(* intake, conflict detection, scoring, rule checks, resolution, the       *)
(* escalation gate, HITL routing and action finalization.                  *)
(*                                                                         *)
(* Numbers: times are minutes since midnight (9:20 = 560); risk,           *)
(* uncertainty, confidence, urgency, impact and scores are hundredths      *)
(* (0.92 = 92, a composite score of 10.76 = 1076).                         *)
(*                                                                         *)
(* The helper methods that take global_state stand for queries to the      *)
(* semantic warehouse graph ("In production: Query semantic graph ...")    *)
(* and return a fixed placeholder value in the source.  The model reads    *)
(* the answer of each such query from the WarehouseState record it is      *)
(* given; PlaceholderState is the state in which every query answers what  *)
(* the source's placeholder returns, and it is one of the states every     *)
(* specification draws from.  Helpers that take no global_state are        *)
(* modelled by the value the source returns.                               *)
(***************************************************************************)
EXTENDS Integers, Sequences, FiniteSets, TLC

VARIABLES
    active_proposals,       \* WMSOrchestrator.active_proposals
    resolved_conflicts,     \* WMSOrchestrator.resolved_conflicts
    pending_hitl_requests,  \* WMSOrchestrator.pending_hitl_requests
    pc,                     \* position of the decision cycle
    clock,                  \* wall clock read by datetime.now()
    conflict_group,         \* the ConflictGroup given to decide_resolution
    global_state,           \* the WarehouseState given to the cycle's calls
    decision,               \* <<ResolutionDecision>> once decided, else <<>>
    outcome,                \* per ranked proposal, the branch decide_resolution took
    hitl_request,           \* <<PlannerDecisionRequest>> once routed, else <<>>
    verdict,                \* the planner's verdict on the routed request
    approved_actions,       \* the list finalize_actions returned
    batch,                  \* the list given to the last collect_proposals call
    valid_proposals,        \* the list that call returned
    intake_log,             \* that call's clock reading, snapshot time and per-proposal step
    detect_input,           \* the list given to the last detect_conflicts call
    conflict_groups,        \* the list that call returned
    gate_log,               \* the last calls of should_escalate_to_planner
    score_input,            \* <<[group, gs]>> given to the last score_and_rank call
    ranking,                \* the list that call returned
    calls,                  \* per caller, the collect_proposals call it is running
    accepted,               \* the proposals appended to the registry by those calls, in order
    parallel,               \* the conflict groups of one cycle and how far each has got
    demo                    \* the demo application's run of one scenario

vars == <<active_proposals, resolved_conflicts, pending_hitl_requests, pc, clock,
          conflict_group, global_state, decision, outcome, hitl_request, verdict,
          approved_actions, batch, valid_proposals, intake_log, detect_input,
          conflict_groups, gate_log, score_input, ranking, calls, accepted, parallel, demo>>

orchestrator == <<active_proposals, resolved_conflicts, pending_hitl_requests>>

cycle_vars == <<pc, conflict_group, decision, outcome, hitl_request, verdict, approved_actions>>

thread_vars == <<calls, accepted>>

intake_vars == <<batch, valid_proposals, intake_log, thread_vars>>

detect_vars == <<detect_input, conflict_groups>>

score_vars == <<score_input, ranking>>

(***************************************************************************)
(* Bounds of the model.                                                    *)
(***************************************************************************)
MaxGroup == 3          \* proposals in one conflict group

MaxBatch == 2          \* proposals in one batch given to collect_proposals

MaxTicks == 2          \* minutes the clock advances

MaxProposals == 3      \* proposals given to detect_conflicts

(***************************************************************************)
(* Python containers.  A dict is a sequence of <<key, value>> entries in   *)
(* insertion order; assigning to an existing key keeps its position.       *)
(***************************************************************************)
Range(s) == {s[i] : i \in 1..Len(s)}

DictKeys(d) == {d[i][1] : i \in 1..Len(d)}

DictGet(d, k) == LET i == CHOOSE j \in 1..Len(d) : d[j][1] = k IN d[i][2]

DictPut(d, k, v) ==
    IF k \in DictKeys(d)
    THEN [i \in 1..Len(d) |-> IF d[i][1] = k THEN <<k, v>> ELSE d[i]]
    ELSE Append(d, <<k, v>>)

NoDup(s) == \A i, j \in 1..Len(s) : i # j => s[i] # s[j]

\* The lists of 1..n pairwise distinct elements of S
DistinctSeqs(S, n) == {s \in UNION {[1..k -> S] : k \in 1..n} : NoDup(s)}

(***************************************************************************)
(* ProposedAction (microagent_behaviors.py) and the proposals the          *)
(* resolution specifications draw from.                                    *)
(***************************************************************************)
ProposedAction(agent, action, target, start, end, resources, prio, risk, unc) ==
    [agent_name |-> agent, action_type |-> action, target_entities |-> target,
     time_window |-> [earliest_start |-> start, latest_end |-> end],
     required_resources |-> resources, priority |-> prio, risk_score |-> risk,
     uncertainty |-> unc, confidence |-> 90]

\* Two agents, each with an urgent job at one location and a routine job at
\* another of aisle A-12: proposals of one agent differ in their target, so
\* they are no duplicates of each other.
ResolveProposals ==
    {ProposedAction(a, "move", job[2], 560, 575, <<"Aisle A-12">>, job[1], 20, 10) :
        a \in {"SlottingAgent", "ReplenishmentAgent"},
        job \in {<<8, "A-12-05">>, <<5, "A-12-08">>}}

ConflictGroup(id, members) ==
    [conflict_id |-> id, conflicting_proposals |-> members,
     conflict_type |-> "aisle_occupancy", conflict_location |-> "Aisle A-12",
     conflict_time_window |-> [earliest_start |-> 560, latest_end |-> 575],
     detected_at |-> 550, risk_score |-> 15]

(***************************************************************************)
(* WarehouseState.  Beside the snapshot time the record holds the answers  *)
(* of the semantic-graph queries the helper methods stand for: which rule  *)
(* checks a proposal fails, which proposals conflict, which alternative    *)
(* window exists, the scoring inputs and the resolution metrics.           *)
(***************************************************************************)
Checks ==
    {"aisle_occupancy", "forklift_worker_proximity", "worker_density", "aisle_locks",
     "equipment_safety", "order_promise_dates", "priority_tiers", "cutoff_times",
     "expedite_requests"}

\* 9:10, when the model's clock starts
StartTime == 9 * 60 + 10

\* Every query answers what the placeholder in the source returns.
PlaceholderState ==
    [current_time |-> StartTime,
     rule_violations |-> {},           \* <<proposal, check>> pairs that fail
     proposal_conflicts |-> {},        \* {p, q}: p and q conflict
     alternatives |-> <<>>,            \* proposal -> alternative, where one exists
     aisle_conflicts |-> <<>>,         \* candidate groups of the four detection passes
     resource_conflicts |-> <<>>,
     safety_violations |-> <<>>,
     sla_tradeoffs |-> <<>>,
     sla_urgency |-> 50,               \* answer for a proposal not in proposal_urgency
     operational_impact |-> 30,        \* answer for a proposal not in proposal_impact
     proposal_urgency |-> <<>>,        \* proposal -> SLA urgency, where the graph has one
     proposal_impact |-> <<>>,         \* proposal -> operational impact, likewise
     resolution_safety_risk |-> 5,
     resolution_sla_risk |-> 10,
     resolution_delay_minutes |-> 15,
     resolution_confidence |-> 92,
     safety_locks |-> {},              \* locked aisle/location ids
     maintenance_windows |-> <<>>]     \* dict: location id -> <<start, end>>

\* The answers a snapshot gives about the proposals M of one group: at most
\* one proposal fails a check (a safety check or an SLA check), and the
\* proposals of one subset of M all contend for the aisle, so that any two of
\* them conflict.
RuleAnswers(M) ==
    {{}} \cup {{<<p, c>>} : p \in M, c \in {"aisle_locks", "priority_tiers"}}

Pairs(S) == {{p, q} : p, q \in S} \ {{p} : p \in S}

ConflictAnswers(M) == {Pairs(S) : S \in SUBSET M}

LaterWindow(p) ==
    [time_window |-> [earliest_start |-> p.time_window.latest_end + 15,
                      latest_end |-> p.time_window.latest_end + 30],
     location |-> "none"]

AlternativeAnswers(M) == {[p \in A |-> LaterWindow(p)] : A \in SUBSET M}

ResolveStates(M) ==
    {[PlaceholderState EXCEPT !.rule_violations = v, !.proposal_conflicts = c,
                              !.alternatives = a, !.resolution_confidence = conf] :
        v \in RuleAnswers(M), c \in ConflictAnswers(M),
        a \in AlternativeAnswers(M), conf \in {92, 97}}

(***************************************************************************)
(* Rule Engine: apply_safety_and_SLA_rules and its nine checks.            *)
(***************************************************************************)
_check_aisle_occupancy(proposal, gs) == <<proposal, "aisle_occupancy">> \notin gs.rule_violations

_check_forklift_worker_proximity(proposal, gs) ==
    <<proposal, "forklift_worker_proximity">> \notin gs.rule_violations

_check_worker_density(proposal, gs) == <<proposal, "worker_density">> \notin gs.rule_violations

_check_aisle_locks(proposal, gs) == <<proposal, "aisle_locks">> \notin gs.rule_violations

_check_equipment_safety(proposal, gs) == <<proposal, "equipment_safety">> \notin gs.rule_violations

_check_order_promise_dates(proposal, gs) ==
    <<proposal, "order_promise_dates">> \notin gs.rule_violations

_check_priority_tiers(proposal, gs) == <<proposal, "priority_tiers">> \notin gs.rule_violations

_check_cutoff_times(proposal, gs) == <<proposal, "cutoff_times">> \notin gs.rule_violations

_check_expedite_requests(proposal, gs) == <<proposal, "expedite_requests">> \notin gs.rule_violations

apply_safety_and_SLA_rules(proposal, gs) ==
    IF ~_check_aisle_occupancy(proposal, gs) THEN FALSE
    ELSE IF ~_check_forklift_worker_proximity(proposal, gs) THEN FALSE
    ELSE IF ~_check_worker_density(proposal, gs) THEN FALSE
    ELSE IF ~_check_aisle_locks(proposal, gs) THEN FALSE
    ELSE IF ~_check_equipment_safety(proposal, gs) THEN FALSE
    ELSE IF ~_check_order_promise_dates(proposal, gs) THEN FALSE
    ELSE IF ~_check_priority_tiers(proposal, gs) THEN FALSE
    ELSE IF ~_check_cutoff_times(proposal, gs) THEN FALSE
    ELSE IF ~_check_expedite_requests(proposal, gs) THEN FALSE
    ELSE TRUE

_violates_safety_rules(proposal, gs) == ~apply_safety_and_SLA_rules(proposal, gs)

_get_violation_details(proposal, gs) == "Safety/SLA violation details"

(***************************************************************************)
(* Scorer: score_and_rank.  Scores are hundredths.                         *)
(***************************************************************************)
MinimumScore == -100000

\* proposal.priority / 10.0, in hundredths
_calculate_priority_weight(proposal, gs) == proposal.priority * 10

_calculate_sla_urgency(proposal, gs) ==
    IF proposal \in DOMAIN gs.proposal_urgency THEN gs.proposal_urgency[proposal]
    ELSE gs.sla_urgency

_calculate_operational_impact(proposal, gs) ==
    IF proposal \in DOMAIN gs.proposal_impact THEN gs.proposal_impact[proposal]
    ELSE gs.operational_impact

\* The score without the safety-first rule of step 2
score_without_safety_first(proposal, gs) ==
    _calculate_priority_weight(proposal, gs) * 10
    + _calculate_sla_urgency(proposal, gs) * 5
    + (100 - _calculate_operational_impact(proposal, gs)) * 3
    - proposal.risk_score * 2
    - proposal.uncertainty * 2

\* A score that rewards risk: risk_score is added, not subtracted
score_rewarding_risk(proposal, gs) ==
    IF ~apply_safety_and_SLA_rules(proposal, gs)
    THEN MinimumScore
    ELSE _calculate_priority_weight(proposal, gs) * 10
         + _calculate_sla_urgency(proposal, gs) * 5
         + (100 - _calculate_operational_impact(proposal, gs)) * 3
         + proposal.risk_score * 2
         - proposal.uncertainty * 2

composite_score(proposal, gs) ==
    IF _violates_safety_rules(proposal, gs)
    THEN MinimumScore
    ELSE _calculate_priority_weight(proposal, gs) * 10
         + _calculate_sla_urgency(proposal, gs) * 5
         + (100 - _calculate_operational_impact(proposal, gs)) * 3
         - proposal.risk_score * 2
         - proposal.uncertainty * 2

\* list.sort(key=score, reverse=True) is stable: equal scores keep their order.
\* InsertScored puts item behind every element whose score is not lower.
InsertScored(sorted, item) ==
    LET k == Cardinality({i \in 1..Len(sorted) : sorted[i].score >= item.score})
    IN SubSeq(sorted, 1, k) \o <<item>> \o SubSeq(sorted, k + 1, Len(sorted))

RECURSIVE SortScored(_, _)
SortScored(sorted, rest) ==
    IF rest = <<>> THEN sorted
    ELSE SortScored(InsertScored(sorted, Head(rest)), Tail(rest))

score_and_rank(group, gs) ==
    LET proposals == group.conflicting_proposals
        scored_proposals ==
            [i \in 1..Len(proposals) |->
                [proposal |-> proposals[i], score |-> composite_score(proposals[i], gs)]]
        sorted == SortScored(<<>>, scored_proposals)
    IN [i \in 1..Len(sorted) |-> sorted[i].proposal]

(***************************************************************************)
(* Escalation Gate: should_escalate_to_planner and its thresholds.         *)
(***************************************************************************)
safety_risk_threshold == 10

sla_risk_threshold == 20

confidence_threshold == 95

complexity_threshold == 2

_has_critical_sla_impact(d) == FALSE

_has_safety_overrides(d) == FALSE

_has_ambiguous_tradeoffs(d) == FALSE

\* Rule 3 with >= in place of >: a group at the ceiling escalates
escalate_at_ceiling(d) ==
    \/ d.safety_risk > safety_risk_threshold
    \/ d.sla_risk > sla_risk_threshold
    \/ d.confidence < confidence_threshold
    \/ Len(d.conflict_group.conflicting_proposals) >= complexity_threshold

\* A gate that also looks at the registry of active proposals
escalate_under_load(d) ==
    \/ d.safety_risk > safety_risk_threshold
    \/ d.sla_risk > sla_risk_threshold
    \/ d.confidence < confidence_threshold
    \/ Len(d.conflict_group.conflicting_proposals) > complexity_threshold
    \/ active_proposals # <<>>

\* A gate that holds a decision back while another group awaits the planner
escalate_behind_awaiting(d) ==
    \/ d.safety_risk > safety_risk_threshold
    \/ d.sla_risk > sla_risk_threshold
    \/ d.confidence < confidence_threshold
    \/ Len(d.conflict_group.conflicting_proposals) > complexity_threshold
    \/ \E k \in 1..Len(parallel.stage) : parallel.stage[k] = "awaiting"

should_escalate_to_planner(d) ==
    IF d.safety_risk > safety_risk_threshold THEN TRUE
    ELSE IF d.sla_risk > sla_risk_threshold THEN TRUE
    ELSE IF d.confidence < confidence_threshold THEN TRUE
    ELSE IF Len(d.conflict_group.conflicting_proposals) > complexity_threshold THEN TRUE
    ELSE IF _has_critical_sla_impact(d) THEN TRUE
    ELSE IF _has_safety_overrides(d) THEN TRUE
    ELSE IF _has_ambiguous_tradeoffs(d) THEN TRUE
    ELSE FALSE

(***************************************************************************)
(* Resolver: decide_resolution.                                            *)
(***************************************************************************)
_proposals_conflict(proposal1, proposal2, gs) == {proposal1, proposal2} \in gs.proposal_conflicts

\* <<alternative>> when one exists, <<>> for None
_find_alternative_time_or_location(proposal, gs, approved_proposals) ==
    IF proposal \in DOMAIN gs.alternatives THEN <<gs.alternatives[proposal]>> ELSE <<>>

_calculate_resolution_safety_risk(approved, rescheduled, gs) == gs.resolution_safety_risk

_calculate_resolution_sla_risk(approved, rescheduled, gs) == gs.resolution_sla_risk

_calculate_resolution_operational_impact(approved, rescheduled, gs) ==
    [delay_minutes |-> gs.resolution_delay_minutes, throughput_impact |-> 2]

\* A confidence that grows with the share of proposals approved as submitted
confidence_by_approvals(approved, rescheduled, rejected, safety_risk, sla_risk, gs) ==
    IF rescheduled = <<>> /\ rejected = <<>> THEN 100 ELSE gs.resolution_confidence

_calculate_resolution_confidence(approved, rescheduled, rejected, safety_risk, sla_risk, gs) ==
    gs.resolution_confidence

_build_resolution_rationale(conflict, approved, rescheduled, rejected, safety_risk, sla_risk, impact) ==
    <<conflict.conflict_type, conflict.conflict_location, Len(approved), Len(rescheduled),
      Len(rejected), safety_risk, sla_risk, impact.delay_minutes>>

\* Step 3 left out: no proposal is rejected for failing the rules
skip_rule_rejection(ranked, gs, i) == <<>>

\* Step 3: rejected_proposals after the first i ranked proposals were checked
RECURSIVE reject_rule_violations(_, _, _)
reject_rule_violations(ranked, gs, i) ==
    IF i = 0 THEN <<>>
    ELSE LET rejected == reject_rule_violations(ranked, gs, i - 1)
             proposal == ranked[i]
         IN IF ~apply_safety_and_SLA_rules(proposal, gs)
            THEN DictPut(rejected, proposal.agent_name,
                         <<"violates safety/SLA rules", _get_violation_details(proposal, gs)>>)
            ELSE rejected

\* Step 4, one proposal: acc holds the three collections, and in branch the
\* branch of the loop body each ranked proposal took so far.
resolve_one(acc, proposal, gs) ==
    IF proposal.agent_name \in DictKeys(acc.rejected)
    THEN [acc EXCEPT !.branch = Append(@, IF apply_safety_and_SLA_rules(proposal, gs)
                                          THEN "skipped" ELSE "rule_rejected")]
    ELSE LET hits == {j \in 1..Len(acc.approved) :
                         _proposals_conflict(proposal, acc.approved[j], gs)}
         IN IF hits = {}
            THEN [acc EXCEPT !.approved = Append(@, proposal),
                             !.branch = Append(@, "approved")]
            ELSE LET approved == acc.approved[CHOOSE j \in hits : \A k \in hits : j <= k]
                     alternative ==
                         _find_alternative_time_or_location(proposal, gs, acc.approved)
                 IN IF alternative # <<>>
                    THEN [acc EXCEPT
                            !.rescheduled = DictPut(@, proposal.agent_name,
                                [new_time_window |-> alternative[1].time_window,
                                 new_location |-> alternative[1].location,
                                 reason |-> approved.agent_name]),
                            !.branch = Append(@, "rescheduled")]
                    ELSE IF proposal.priority >= 8
                    THEN [acc EXCEPT !.branch = Append(@, "pending")]
                    ELSE [acc EXCEPT
                            !.rejected = DictPut(@, proposal.agent_name,
                                <<"cannot reschedule", "no alternative time/location available">>),
                            !.branch = Append(@, "rejected")]

RECURSIVE resolve_ranked(_, _, _)
resolve_ranked(ranked, gs, i) ==
    IF i = 0
    THEN [approved |-> <<>>, rescheduled |-> <<>>,
          rejected |-> reject_rule_violations(ranked, gs, Len(ranked)), branch |-> <<>>]
    ELSE resolve_one(resolve_ranked(ranked, gs, i - 1), ranked[i], gs)

decide_resolution(group, gs) ==
    LET ranked_proposals == score_and_rank(group, gs)
        acc == resolve_ranked(ranked_proposals, gs, Len(ranked_proposals))
        safety_risk == _calculate_resolution_safety_risk(acc.approved, acc.rescheduled, gs)
        sla_risk == _calculate_resolution_sla_risk(acc.approved, acc.rescheduled, gs)
        operational_impact ==
            _calculate_resolution_operational_impact(acc.approved, acc.rescheduled, gs)
        confidence ==
            _calculate_resolution_confidence(acc.approved, acc.rescheduled, acc.rejected,
                                             safety_risk, sla_risk, gs)
        resolution ==
            [decision_id |-> <<"resolution", group.conflict_id>>,
             conflict_group |-> group,
             approved_proposals |-> acc.approved,
             rescheduled_proposals |-> acc.rescheduled,
             rejected_proposals |-> acc.rejected,
             escalation_required |-> FALSE,
             rationale |-> _build_resolution_rationale(group, acc.approved, acc.rescheduled,
                               acc.rejected, safety_risk, sla_risk, operational_impact),
             confidence |-> confidence,
             safety_risk |-> safety_risk,
             sla_risk |-> sla_risk,
             operational_impact |-> operational_impact]
    IN [resolution EXCEPT !.escalation_required = should_escalate_to_planner(resolution)]

\* The branch of step 4 each proposal of the ranking took, in ranking order.
resolution_branches(group, gs) ==
    LET ranked == score_and_rank(group, gs)
    IN [ranked |-> ranked, branch |-> resolve_ranked(ranked, gs, Len(ranked)).branch]

(***************************************************************************)
(* HITL routing: route_for_HITL.                                           *)
(***************************************************************************)
_format_recommendation_summary(d) == d.rationale

_calculate_impact_preview(d, conflict) ==
    [sla_impact |-> "Low", congestion_projection |-> "Moderate",
     operational_metrics |-> d.operational_impact]

_generate_alternative_resolutions(d, conflict) == <<>>

\* A routing that hands the planner a recommendation without its rejections
\* and with full confidence.
route_with_trimmed_recommendation(d) ==
    LET conflict == d.conflict_group
        members == conflict.conflicting_proposals
        agents_involved == [i \in 1..Len(members) |-> members[i].agent_name]
    IN [request_id |-> <<"hitl", d.decision_id>>,
        conflict_summary |-> <<conflict.conflict_type, conflict.conflict_location,
                               conflict.conflict_time_window, agents_involved>>,
        agents_involved |-> agents_involved,
        location |-> conflict.conflict_location,
        time_window |-> conflict.conflict_time_window,
        risk_indicators |-> [safety_risk |-> d.safety_risk, sla_risk |-> d.sla_risk,
                             operational_impact |-> d.operational_impact.delay_minutes],
        proposals |-> members,
        orchestrator_recommendation |-> [d EXCEPT !.rejected_proposals = <<>>],
        impact_preview |-> _calculate_impact_preview(d, conflict),
        alternatives |-> _generate_alternative_resolutions(d, conflict),
        confidence |-> 100,
        detected_at |-> conflict.detected_at]

route_for_HITL(d) ==
    LET conflict == d.conflict_group
        members == conflict.conflicting_proposals
        agents_involved == [i \in 1..Len(members) |-> members[i].agent_name]
    IN [request_id |-> <<"hitl", d.decision_id>>,
        conflict_summary |-> <<conflict.conflict_type, conflict.conflict_location,
                               conflict.conflict_time_window, agents_involved>>,
        agents_involved |-> agents_involved,
        location |-> conflict.conflict_location,
        time_window |-> conflict.conflict_time_window,
        risk_indicators |-> [safety_risk |-> d.safety_risk, sla_risk |-> d.sla_risk,
                             operational_impact |-> d.operational_impact.delay_minutes],
        proposals |-> members,
        orchestrator_recommendation |-> d,
        impact_preview |-> _calculate_impact_preview(d, conflict),
        alternatives |-> _generate_alternative_resolutions(d, conflict),
        confidence |-> d.confidence,
        detected_at |-> conflict.detected_at]

(***************************************************************************)
(* Action Finalizer: finalize_actions.                                     *)
(***************************************************************************)
approved_by(d) == IF ~d.escalation_required THEN "orchestrator" ELSE "planner:pending"

\* Step 1: one action per entry of approved_proposals
actions_of_approved(d, now) ==
    [i \in 1..Len(d.approved_proposals) |->
        LET proposal == d.approved_proposals[i]
        IN [action_id |-> <<"action", proposal.agent_name, d.decision_id>>,
            original_proposal |-> proposal,
            approved_time_window |-> proposal.time_window,
            approved_resources |-> proposal.required_resources,
            execution_priority |-> proposal.priority,
            safety_validated |-> TRUE,
            sla_validated |-> TRUE,
            approved_by |-> approved_by(d),
            approved_at |-> now]]

\* next((p for p in conflicting_proposals if p.agent_name == agent_name), None)
find_original_proposal(d, agent_name) ==
    LET members == d.conflict_group.conflicting_proposals
        named == {i \in 1..Len(members) : members[i].agent_name = agent_name}
    IN IF named = {} THEN <<>>
       ELSE <<members[CHOOSE i \in named : \A j \in named : i <= j]>>

\* A finalizer that writes the new window into the original proposal
RECURSIVE reschedule_in_place(_, _, _)
reschedule_in_place(d, now, i) ==
    IF i = 0 THEN <<>>
    ELSE LET agent_name == d.rescheduled_proposals[i][1]
             reschedule_info == d.rescheduled_proposals[i][2]
             original_proposal == find_original_proposal(d, agent_name)
             before == reschedule_in_place(d, now, i - 1)
         IN IF original_proposal # <<>>
            THEN Append(before,
                   [action_id |-> <<"action", agent_name, d.decision_id, "rescheduled">>,
                    original_proposal |->
                        [original_proposal[1] EXCEPT
                            !.time_window = reschedule_info.new_time_window],
                    approved_time_window |-> reschedule_info.new_time_window,
                    approved_resources |-> original_proposal[1].required_resources,
                    execution_priority |-> original_proposal[1].priority,
                    safety_validated |-> TRUE,
                    sla_validated |-> TRUE,
                    approved_by |-> approved_by(d),
                    approved_at |-> now])
            ELSE before

\* Step 2: the actions of the first i entries of rescheduled_proposals
RECURSIVE actions_of_rescheduled(_, _, _)
actions_of_rescheduled(d, now, i) ==
    IF i = 0 THEN <<>>
    ELSE LET agent_name == d.rescheduled_proposals[i][1]
             reschedule_info == d.rescheduled_proposals[i][2]
             original_proposal == find_original_proposal(d, agent_name)
             before == actions_of_rescheduled(d, now, i - 1)
         IN IF original_proposal # <<>>
            THEN Append(before,
                   [action_id |-> <<"action", agent_name, d.decision_id, "rescheduled">>,
                    original_proposal |-> original_proposal[1],
                    approved_time_window |-> reschedule_info.new_time_window,
                    approved_resources |-> original_proposal[1].required_resources,
                    execution_priority |-> original_proposal[1].priority,
                    safety_validated |-> TRUE,
                    sla_validated |-> TRUE,
                    approved_by |-> approved_by(d),
                    approved_at |-> now])
            ELSE before

RECURSIVE finalize_actions(_, _)
finalize_actions(decisions, now) ==
    IF decisions = <<>> THEN <<>>
    ELSE LET d == decisions[Len(decisions)]
         IN finalize_actions(SubSeq(decisions, 1, Len(decisions) - 1), now)
            \o actions_of_approved(d, now)
            \o actions_of_rescheduled(d, now, Len(d.rescheduled_proposals))

(***************************************************************************)
(* The decision cycle of one conflict group: decide_resolution, then       *)
(* route_for_HITL and the planner's verdict when the decision is           *)
(* escalated, then finalize_actions.  finalize_actions takes whatever      *)
(* decisions it is given: it is enabled as soon as a decision exists.      *)
(***************************************************************************)
ResolveGroups ==
    {ConflictGroup("c1", members) : members \in DistinctSeqs(ResolveProposals, MaxGroup)}

IdleCycle ==
    /\ pc = "idle"
    /\ conflict_group = <<>>
    /\ global_state = PlaceholderState
    /\ decision = <<>>
    /\ outcome = <<>>
    /\ hitl_request = <<>>
    /\ verdict = "none"
    /\ approved_actions = <<>>

\* The demo application before a scenario is selected
NoRun ==
    [stage |-> "idle", scenario |-> <<>>, action |-> <<>>, orchestrator_decision |-> <<>>,
     eval_result |-> <<>>]

\* No conflict group detected yet
NoCycle ==
    [groups |-> <<>>, stage |-> <<>>, decisions |-> <<>>, requests |-> <<>>,
     actions |-> <<>>, order |-> <<>>]

\* The threads that call collect_proposals on the one orchestrator
Callers == {"producer-1", "producer-2"}

\* The frame of a caller that is not inside collect_proposals
NoCall ==
    [pc |-> "idle", proposals |-> <<>>, i |-> 0, current_time |-> StartTime,
     kept |-> <<>>, valid_proposals |-> <<>>]

\* WMSOrchestrator.__init__: empty registries; no call made yet.
Init ==
    /\ active_proposals = <<>>
    /\ resolved_conflicts = <<>>
    /\ pending_hitl_requests = <<>>
    /\ clock = StartTime
    /\ IdleCycle
    /\ batch = <<>>
    /\ valid_proposals = <<>>
    /\ intake_log = [now |-> StartTime, snapshot |-> StartTime, steps |-> <<>>]
    /\ detect_input = <<>>
    /\ conflict_groups = <<>>
    /\ gate_log = <<>>
    /\ score_input = <<>>
    /\ ranking = <<>>
    /\ calls = [t \in Callers |-> NoCall]
    /\ accepted = <<>>
    /\ parallel = NoCycle
    /\ demo = NoRun

registries ==
    <<orchestrator, clock, intake_vars, detect_vars, gate_log, score_vars, parallel, demo>>

\* One call of decide_resolution on a group drawn from groups
Decide(groups) ==
    /\ pc = "idle"
    /\ \E group \in groups :
         \E gs \in ResolveStates(Range(group.conflicting_proposals)) :
            /\ conflict_group' = <<group>>
            /\ global_state' = gs
            /\ decision' = <<decide_resolution(group, gs)>>
            /\ outcome' = resolution_branches(group, gs)
    /\ pc' = "decided"
    /\ UNCHANGED <<registries, hitl_request, verdict, approved_actions>>

DecideResolution == Decide(ResolveGroups)

RouteForHITL ==
    /\ pc = "decided"
    /\ decision[1].escalation_required
    /\ hitl_request' = <<route_for_HITL(decision[1])>>
    /\ pc' = "routed"
    /\ UNCHANGED <<registries, conflict_group, global_state, decision, outcome, verdict,
                   approved_actions>>

\* The planner answers a routed request: approve, modify or reject.
PlannerVerdict ==
    /\ pc = "routed"
    /\ \E v \in {"approve", "modify", "reject"} : verdict' = v
    /\ pc' = "reviewed"
    /\ UNCHANGED <<registries, conflict_group, global_state, decision, outcome, hitl_request,
                   approved_actions>>

FinalizeActions ==
    /\ pc \in {"decided", "routed", "reviewed"}
    /\ approved_actions' = finalize_actions(decision, clock)
    /\ pc' = "finalized"
    /\ UNCHANGED <<registries, conflict_group, global_state, decision, outcome, hitl_request,
                   verdict>>

NextCycle ==
    /\ pc = "finalized"
    /\ pc' = "idle"
    /\ conflict_group' = <<>>
    /\ global_state' = PlaceholderState
    /\ decision' = <<>>
    /\ outcome' = <<>>
    /\ hitl_request' = <<>>
    /\ verdict' = "none"
    /\ approved_actions' = <<>>
    /\ UNCHANGED registries

NextResolve ==
    \/ DecideResolution
    \/ RouteForHITL
    \/ PlannerVerdict
    \/ FinalizeActions
    \/ NextCycle

SpecResolve == Init /\ [][NextResolve]_vars

(***************************************************************************)
(* Proposal Intake: collect_proposals.                                     *)
(***************************************************************************)
\* Python's None, for a metadata field that is present but not set
None == 0 - 1

required_fields ==
    {"agent_name", "action_type", "time_window", "priority", "risk_score", "uncertainty"}

_validate_proposal_schema(proposal) == required_fields \subseteq DOMAIN proposal

_is_proposal_stale(proposal, current_time) ==
    IF proposal.time_window.latest_end < current_time THEN TRUE ELSE FALSE

_has_complete_metadata(proposal) ==
    /\ "confidence" \in DOMAIN proposal /\ proposal.confidence # None
    /\ "risk_score" \in DOMAIN proposal /\ proposal.risk_score # None
    /\ "uncertainty" \in DOMAIN proposal /\ proposal.uncertainty # None

same_submission(p, proposal) ==
    /\ p.agent_name = proposal.agent_name
    /\ p.action_type = proposal.action_type
    /\ p.target_entities = proposal.target_entities

\* active is self.active_proposals at the time of the call
_is_duplicate_proposal(active, proposal) ==
    \E i \in 1..Len(active) : same_submission(active[i], proposal)

\* A removal that leaves the registry as it is
keep_older_duplicate(active, proposal) == active

_remove_duplicate(active, proposal) ==
    LET Kept(p) == ~same_submission(p, proposal) IN SelectSeq(active, Kept)

_passes_basic_constraints(proposal) == TRUE

\* The loop body for one proposal.  acc holds valid_proposals, the registry
\* self.active_proposals and, in steps, the step at which each proposal of the
\* batch left the loop body.
collect_one(acc, proposal, current_time) ==
    IF ~_validate_proposal_schema(proposal)
    THEN [acc EXCEPT !.steps = Append(@, "schema")]
    ELSE IF _is_proposal_stale(proposal, current_time)
    THEN [acc EXCEPT !.steps = Append(@, "stale")]
    ELSE IF ~_has_complete_metadata(proposal)
    THEN [acc EXCEPT !.steps = Append(@, "metadata")]
    ELSE LET active == IF _is_duplicate_proposal(acc.active, proposal)
                       THEN _remove_duplicate(acc.active, proposal)
                       ELSE acc.active
         IN IF ~_passes_basic_constraints(proposal)
            THEN [acc EXCEPT !.active = active, !.steps = Append(@, "constraints")]
            ELSE [valid |-> Append(acc.valid, proposal),
                  active |-> Append(active, proposal),
                  steps |-> Append(acc.steps, "accepted")]

\* The state of the loop after the first i proposals; current_time is the
\* datetime.now() read before the loop.
RECURSIVE collect_proposals(_, _, _, _)
collect_proposals(proposals, active, current_time, i) ==
    IF i = 0 THEN [valid |-> <<>>, active |-> active, steps |-> <<>>]
    ELSE collect_one(collect_proposals(proposals, active, current_time, i - 1),
                     proposals[i], current_time)

\* Submissions of PickingAgent in two versions (priority 5 and 7) of the same
\* action on the same target, with a window that ends at StartTime or a minute
\* later; one submission of SlottingAgent; one proposal without a priority
\* field and one whose confidence is None.
IntakeProposals ==
    {ProposedAction("PickingAgent", "pick_assignment", "order-1", StartTime - 10, end,
                    <<"worker-1">>, prio, 20, 10) :
        prio \in {5, 7}, end \in {StartTime, StartTime + 1}}
    \cup {ProposedAction("SlottingAgent", "move_pallet", "A-12-05", StartTime, StartTime + 5,
                         <<"Aisle A-12">>, 8, 20, 10)}
    \cup {[agent_name |-> "LaborAgent", action_type |-> "assign", target_entities |-> "zone-1",
           time_window |-> [earliest_start |-> StartTime, latest_end |-> StartTime + 5],
           required_resources |-> <<"worker-2">>, risk_score |-> 20, uncertainty |-> 10,
           confidence |-> 90]}
    \cup {[ProposedAction("LaborAgent", "assign", "zone-1", StartTime, StartTime + 5,
                          <<"worker-2">>, 5, 20, 10) EXCEPT !.confidence = None]}

Batches == UNION {[1..k -> IntakeProposals] : k \in 1..MaxBatch}

\* One call of collect_proposals, at the current clock time.
Collect(proposals) ==
    LET result == collect_proposals(proposals, active_proposals, clock, Len(proposals))
    IN /\ batch' = proposals
       /\ valid_proposals' = result.valid
       /\ active_proposals' = result.active
       /\ intake_log' = [now |-> clock, snapshot |-> global_state.current_time,
                         steps |-> result.steps]
       /\ UNCHANGED <<resolved_conflicts, pending_hitl_requests, clock, global_state,
                      cycle_vars, detect_vars, gate_log, score_vars, parallel, thread_vars,
                      demo>>

CollectProposals == \E proposals \in Batches : Collect(proposals)

\* Time passes.
Tick ==
    /\ clock < StartTime + MaxTicks
    /\ clock' = clock + 1
    /\ UNCHANGED <<orchestrator, global_state, cycle_vars, intake_vars, detect_vars, gate_log,
                   score_vars, parallel, demo>>

\* What a snapshot may hold about Aisle A-12: nothing, a safety lock, or a
\* maintenance window that is active from StartTime on.
HazardAnswers ==
    {[safety_locks |-> {}, maintenance_windows |-> <<>>],
     [safety_locks |-> {"Aisle A-12"}, maintenance_windows |-> <<>>],
     [safety_locks |-> {},
      maintenance_windows |-> <<<<"Aisle A-12", <<StartTime, StartTime + 10>>>>>>]}

\* The warehouse state snapshot is refreshed for a new decision cycle.
RefreshState ==
    /\ \E h \in HazardAnswers :
         global_state' = [global_state EXCEPT !.current_time = clock,
                                              !.safety_locks = h.safety_locks,
                                              !.maintenance_windows = h.maintenance_windows]
    /\ global_state' # global_state
    /\ UNCHANGED <<orchestrator, clock, cycle_vars, intake_vars, detect_vars, gate_log,
                   score_vars, parallel, demo>>

NextIntake ==
    \/ CollectProposals
    \/ Tick
    \/ RefreshState

SpecIntake == Init /\ [][NextIntake]_vars

(***************************************************************************)
(* Conflict Detector: detect_conflicts.  The four passes read the          *)
(* candidate groups they report from the WarehouseState.                   *)
(***************************************************************************)
_detect_aisle_conflicts(proposals, gs) == gs.aisle_conflicts

_detect_resource_conflicts(proposals, gs) == gs.resource_conflicts

_detect_safety_violations(proposals, gs) == gs.safety_violations

_detect_sla_tradeoffs(proposals, gs) == gs.sla_tradeoffs

\* None is <<>>, a group found is <<its index in conflict_groups>>
_find_existing_conflict_group(proposals, groups) == <<>>

\* The loop of the resource pass (multi = TRUE) and of the SLA pass over the
\* first i candidates: a candidate is merged into the existing group
\* _find_existing_conflict_group names, or appended.
RECURSIVE merge_conflicts(_, _, _, _)
merge_conflicts(groups, conflicts, multi, i) ==
    IF i = 0 THEN groups
    ELSE LET acc == merge_conflicts(groups, conflicts, multi, i - 1)
             conflict == conflicts[i]
             existing_group == _find_existing_conflict_group(conflict.conflicting_proposals, acc)
         IN IF existing_group # <<>>
            THEN LET g == acc[existing_group[1]]
                     New(q) == q \notin Range(g.conflicting_proposals)
                     extended == g.conflicting_proposals \o
                                 SelectSeq(conflict.conflicting_proposals, New)
                 IN [acc EXCEPT ![existing_group[1]] =
                        [g EXCEPT !.conflicting_proposals = extended,
                                  !.conflict_type = IF multi THEN "multi_dimensional" ELSE @]]
            ELSE Append(acc, conflict)

detect_conflicts(proposals, gs) ==
    LET step1 == <<>> \o _detect_aisle_conflicts(proposals, gs)
        step2 == LET resource_conflicts == _detect_resource_conflicts(proposals, gs)
                 IN merge_conflicts(step1, resource_conflicts, TRUE, Len(resource_conflicts))
        step3 == step2 \o _detect_safety_violations(proposals, gs)
        sla_conflicts == _detect_sla_tradeoffs(proposals, gs)
    IN merge_conflicts(step3, sla_conflicts, FALSE, Len(sla_conflicts))

\* Two forklift moves whose windows overlap and a pick that needs another
\* resource.
DetectProposals ==
    {ProposedAction("SlottingAgent", "move_pallet", "A-12-05", 560, 575, <<"forklift-1">>,
                    8, 20, 10),
     ProposedAction("ReplenishmentAgent", "replenish", "A-12-08", 565, 580, <<"forklift-1">>,
                    5, 20, 10),
     ProposedAction("PickingAgent", "pick_assignment", "order-1", 560, 575, <<"worker-3">>,
                    7, 20, 10)}

\* The members of S in the order of proposals
Listed(proposals, S) == LET In(q) == q \in S IN SelectSeq(proposals, In)

\* What one pass may report: nothing (the placeholder's answer), or one
\* candidate group of the given type over members of sizes in sizes.
Candidates(proposals, type, sizes) ==
    {<<>>} \cup
    {<<[ConflictGroup(type, Listed(proposals, S)) EXCEPT !.conflict_type = type]>> :
        S \in {T \in SUBSET Range(proposals) : Cardinality(T) \in sizes}}

DetectStates(proposals, gs) ==
    {[gs EXCEPT !.aisle_conflicts = a, !.resource_conflicts = r,
                !.safety_violations = v, !.sla_tradeoffs = t] :
        a \in Candidates(proposals, "aisle_occupancy", 2..MaxProposals),
        r \in Candidates(proposals, "resource_competition", 2..MaxProposals),
        v \in Candidates(proposals, "safety_violation", {1}),
        t \in Candidates(proposals, "sla_tradeoff", {Len(proposals)} \ {1})}

DetectConflicts ==
    /\ \E proposals \in DistinctSeqs(DetectProposals, MaxProposals) :
         \E gs \in DetectStates(proposals, global_state) :
            /\ detect_input' = proposals
            /\ global_state' = gs
            /\ conflict_groups' = detect_conflicts(proposals, gs)
    /\ UNCHANGED <<orchestrator, clock, cycle_vars, intake_vars, gate_log, score_vars,
                   parallel, demo>>

NextDetect == DetectConflicts

SpecDetect == Init /\ [][NextDetect]_vars

(***************************************************************************)
(* The escalation gate called on its own: should_escalate_to_planner is    *)
(* given a ResolutionDecision; gate_log keeps the last two calls.          *)
(***************************************************************************)
GateListing ==
    <<ProposedAction("SlottingAgent", "move", "A-12-05", 560, 575, <<"Aisle A-12">>, 8, 20, 10),
      ProposedAction("ReplenishmentAgent", "move", "A-12-05", 560, 575, <<"Aisle A-12">>,
                     8, 20, 10),
      ProposedAction("SlottingAgent", "move", "A-12-08", 560, 575, <<"Aisle A-12">>, 5, 20, 10),
      ProposedAction("ReplenishmentAgent", "move", "A-12-08", 560, 575, <<"Aisle A-12">>,
                     5, 20, 10)>>

\* Groups of 1..MaxGroup proposals, two of each size where the listing allows
GateGroups ==
    {ConflictGroup("c1", SubSeq(GateListing, w[1], w[1] + w[2] - 1)) :
        w \in {v \in (1..2) \X (1..MaxGroup) : v[1] + v[2] - 1 <= Len(GateListing)}}

\* Resolution metrics at their thresholds, and one metric at a time beyond its
\* threshold: <<safety risk, SLA risk, confidence>> in hundredths.
GateMetrics ==
    {<<safety_risk_threshold, sla_risk_threshold, confidence_threshold>>,
     <<safety_risk_threshold + 5, sla_risk_threshold, confidence_threshold>>,
     <<safety_risk_threshold, sla_risk_threshold + 5, confidence_threshold>>,
     <<safety_risk_threshold, sla_risk_threshold, confidence_threshold - 3>>}

GateDecisions ==
    {decide_resolution(group,
                       [PlaceholderState EXCEPT !.resolution_safety_risk = m[1],
                                                !.resolution_sla_risk = m[2],
                                                !.resolution_confidence = m[3]]) :
        group \in GateGroups, m \in GateMetrics}

ShouldEscalate ==
    /\ \E d \in GateDecisions :
         LET call == [decision |-> d, registered |-> Len(active_proposals),
                      result |-> should_escalate_to_planner(d)]
         IN gate_log' = IF Len(gate_log) < 2 THEN Append(gate_log, call)
                        ELSE Append(Tail(gate_log), call)
    /\ UNCHANGED <<orchestrator, clock, global_state, cycle_vars, intake_vars, detect_vars,
                   score_vars, parallel, demo>>

\* Between calls of the gate an agent submits a proposal.
SubmitProposal ==
    \E p \in {q \in IntakeProposals : _validate_proposal_schema(q) /\ q.priority = 8} :
        Collect(<<p>>)

NextEscalate ==
    \/ ShouldEscalate
    \/ SubmitProposal

SpecEscalate == Init /\ [][NextEscalate]_vars

(***************************************************************************)
(* The Scorer called on its own: score_and_rank is given a ConflictGroup   *)
(* and a WarehouseState.                                                   *)
(***************************************************************************)
\* The two proposals of the example walkthrough (ReplenishmentAgent: priority
\* 7, risk 0.3, uncertainty 0.12; SlottingAgent: priority 5, risk 0.2,
\* uncertainty 0.10), a PickingAgent proposal with the metadata of the
\* SlottingAgent one, and two proposals at the ends of the ranges: priority
\* 10 with no risk and no uncertainty, priority 1 with risk and uncertainty 1.0.
ExampleA ==
    ProposedAction("ReplenishmentAgent", "replenish", "A-12-05", 560, 575, <<"Aisle A-12">>,
                   7, 30, 12)

ExampleB ==
    ProposedAction("SlottingAgent", "move_pallet", "A-12-08", 565, 580, <<"Aisle A-12">>,
                   5, 20, 10)

ScoreProposals ==
    {ExampleA, ExampleB,
     ProposedAction("PickingAgent", "pick_assignment", "order-1", 560, 590, <<"Aisle A-12">>,
                    5, 20, 10),
     ProposedAction("LaborAgent", "assign", "zone-1", 560, 575, <<"Aisle A-12">>, 10, 0, 0),
     ProposedAction("InboundAgent", "putaway", "A-12-01", 560, 575, <<"Aisle A-12">>,
                    1, 100, 100)}

ScoreGroups ==
    {ConflictGroup("c1", members) : members \in DistinctSeqs(ScoreProposals, MaxGroup)}

\* The walkthrough's answers for its two proposals: SLA urgency 0.6 and 0.2,
\* operational impact 0.2 and 0.3.
WalkthroughUrgency(M) == [p \in M \cap {ExampleA, ExampleB} |-> IF p = ExampleA THEN 60 ELSE 20]

WalkthroughImpact(M) == [p \in M \cap {ExampleA, ExampleB} |-> IF p = ExampleA THEN 20 ELSE 30]

\* At most one member fails a rule check; urgency and impact are the
\* placeholder's (0.5 and 0.3 for every proposal) or the walkthrough's.
ScoreStates(M) ==
    {[PlaceholderState EXCEPT !.rule_violations = v, !.proposal_urgency = u[1],
                              !.proposal_impact = u[2]] :
        v \in {{}} \cup {{<<p, "aisle_locks">>} : p \in M},
        u \in {<<<<>>, <<>>>>, <<WalkthroughUrgency(M), WalkthroughImpact(M)>>}}

ScoreAndRank ==
    /\ \E group \in ScoreGroups :
         \E gs \in ScoreStates(Range(group.conflicting_proposals)) :
            /\ score_input' = <<[group |-> group, gs |-> gs]>>
            /\ ranking' = score_and_rank(group, gs)
    /\ UNCHANGED <<orchestrator, clock, global_state, cycle_vars, intake_vars, detect_vars,
                   gate_log, parallel, demo>>

NextScore == ScoreAndRank

SpecScore == Init /\ [][NextScore]_vars

(***************************************************************************)
(* The decision cycle on the conflict of the example walkthrough:          *)
(* ReplenishmentAgent 9:20-9:35 and SlottingAgent 9:25-9:40 in Aisle A-12. *)
(***************************************************************************)
ExampleGroups ==
    {ConflictGroup("c1", members) : members \in {<<ExampleA, ExampleB>>, <<ExampleB, ExampleA>>}}

DecideExample == Decide(ExampleGroups)

NextExample ==
    \/ DecideExample
    \/ RouteForHITL
    \/ PlannerVerdict
    \/ FinalizeActions
    \/ NextCycle

SpecExample == Init /\ [][NextExample]_vars

(***************************************************************************)
(* The decision cycle on two proposals of different priority tiers.        *)
(***************************************************************************)
\* The walkthrough's two proposals and a proposal of priority 6 whose risk
\* and uncertainty are 1.0
TierProposals ==
    {ExampleA, ExampleB,
     ProposedAction("LaborAgent", "assign", "zone-1", 560, 575, <<"Aisle A-12">>, 6, 100, 100)}

TierGroups ==
    {ConflictGroup("c1", members) :
        members \in {m \in DistinctSeqs(TierProposals, 2) : Len(m) = 2}}

DecideTiers == Decide(TierGroups)

NextTiers ==
    \/ DecideTiers
    \/ RouteForHITL
    \/ PlannerVerdict
    \/ FinalizeActions
    \/ NextCycle

SpecTiers == Init /\ [][NextTiers]_vars

(***************************************************************************)
(* collect_proposals called by two threads on one orchestrator.  The       *)
(* method takes no lock; a thread can be preempted between reading         *)
(* self.active_proposals and assigning to it.  Each step below reads or    *)
(* writes the registry at most once.                                       *)
(***************************************************************************)
\* Submissions that are not stale at StartTime
ThreadProposals == {p \in IntakeProposals : p.time_window.latest_end > StartTime}

ThreadBatches == UNION {[1..k -> ThreadProposals] : k \in 1..MaxBatch}

\* The proposal the call of caller t is at
Current(t) == calls[t].proposals[calls[t].i]

\* The next iteration of the loop, or the return
NextIteration(c) ==
    IF c.i < Len(c.proposals) THEN [c EXCEPT !.i = @ + 1, !.pc = "check"]
    ELSE [c EXCEPT !.pc = "returned"]

\* The call starts: valid_proposals = [], current_time = datetime.now()
BeginCollect(t) ==
    /\ calls[t].pc = "idle"
    /\ \E proposals \in ThreadBatches :
          calls' = [calls EXCEPT ![t] =
                      [pc |-> "check", proposals |-> proposals, i |-> 1,
                       current_time |-> clock, kept |-> <<>>, valid_proposals |-> <<>>]]
    /\ UNCHANGED <<orchestrator, clock, global_state, cycle_vars, batch, valid_proposals,
                   intake_log, accepted, detect_vars, gate_log, score_vars, parallel, demo>>

\* Steps 1 to 4 up to the answer of _is_duplicate_proposal
CheckProposal(t) ==
    /\ calls[t].pc = "check"
    /\ LET c == calls[t]
           proposal == Current(t)
       IN calls' = [calls EXCEPT ![t] =
              IF \/ ~_validate_proposal_schema(proposal)
                 \/ _is_proposal_stale(proposal, c.current_time)
                 \/ ~_has_complete_metadata(proposal)
              THEN NextIteration(c)
              ELSE IF _is_duplicate_proposal(active_proposals, proposal)
              THEN [c EXCEPT !.pc = "filter"]
              ELSE [c EXCEPT !.pc = "append"]]
    /\ UNCHANGED <<orchestrator, clock, global_state, cycle_vars, batch, valid_proposals,
                   intake_log, accepted, detect_vars, gate_log, score_vars, parallel, demo>>

\* _remove_duplicate builds the filtered list from the registry it reads
FilterDuplicates(t) ==
    /\ calls[t].pc = "filter"
    /\ calls' = [calls EXCEPT ![t].kept = _remove_duplicate(active_proposals, Current(t)),
                              ![t].pc = "store"]
    /\ UNCHANGED <<orchestrator, clock, global_state, cycle_vars, batch, valid_proposals,
                   intake_log, accepted, detect_vars, gate_log, score_vars, parallel, demo>>

\* _remove_duplicate assigns the filtered list to self.active_proposals
StoreFiltered(t) ==
    /\ calls[t].pc = "store"
    /\ active_proposals' = calls[t].kept
    /\ calls' = [calls EXCEPT ![t].pc = "append"]
    /\ UNCHANGED <<resolved_conflicts, pending_hitl_requests, clock, global_state, cycle_vars,
                   batch, valid_proposals, intake_log, accepted, detect_vars, gate_log,
                   score_vars, parallel, demo>>

\* Step 5 and the two appends
AppendProposal(t) ==
    /\ calls[t].pc = "append"
    /\ LET c == calls[t]
           proposal == Current(t)
       IN IF ~_passes_basic_constraints(proposal)
          THEN /\ calls' = [calls EXCEPT ![t] = NextIteration(c)]
               /\ UNCHANGED <<active_proposals, accepted>>
          ELSE /\ calls' = [calls EXCEPT ![t] =
                              NextIteration([c EXCEPT !.valid_proposals = Append(@, proposal)])]
               /\ active_proposals' = Append(active_proposals, proposal)
               /\ accepted' = Append(accepted, proposal)
    /\ UNCHANGED <<resolved_conflicts, pending_hitl_requests, clock, global_state, cycle_vars,
                   batch, valid_proposals, intake_log, detect_vars, gate_log, score_vars,
                   parallel, demo>>

NextThreads ==
    \E t \in Callers :
        \/ BeginCollect(t)
        \/ CheckProposal(t)
        \/ FilterDuplicates(t)
        \/ StoreFiltered(t)
        \/ AppendProposal(t)

SpecThreads == Init /\ [][NextThreads]_vars

(***************************************************************************)
(* Two conflict groups of one cycle.  decide_resolution, route_for_HITL    *)
(* and finalize_actions are called per group, in any order, under the one  *)
(* snapshot of the cycle.                                                  *)
(***************************************************************************)
FirstGroupProposals ==
    {p \in ResolveProposals : p.priority = 8 \/ p.agent_name = "SlottingAgent"}

SecondGroupProposals == {p \in ResolveProposals : p.priority = 5}

\* The first group has two or three members, the second one or two
ParallelCycles ==
    {<<ConflictGroup("c1", m1), ConflictGroup("c2", m2)>> :
        m1 \in {m \in DistinctSeqs(FirstGroupProposals, 3) : Len(m) >= 2},
        m2 \in {m \in DistinctSeqs(SecondGroupProposals, 2) : Len(m) >= 1}}

\* Snapshots: no proposal or one proposal fails the aisle lock check, none or
\* all of the proposals conflict, none or all have an alternative window.
ParallelStates ==
    {[PlaceholderState EXCEPT !.rule_violations = v, !.proposal_conflicts = c,
                              !.alternatives = a, !.resolution_confidence = conf] :
        v \in {{}} \cup {{<<p, "aisle_locks">>} : p \in ResolveProposals},
        c \in {{}, Pairs(ResolveProposals)},
        a \in {<<>>, [p \in ResolveProposals |-> LaterWindow(p)]},
        conf \in {92, 97}}

\* Positions in the list of groups of a cycle
GroupIndex == {1, 2}

\* detect_conflicts has returned the groups of the cycle
DetectCycle ==
    /\ parallel = NoCycle
    /\ \E cycle \in ParallelCycles, gs \in ParallelStates :
          /\ global_state' = gs
          /\ parallel' = [groups |-> cycle,
                          stage |-> [k \in 1..Len(cycle) |-> "detected"],
                          decisions |-> [k \in 1..Len(cycle) |-> <<>>],
                          requests |-> [k \in 1..Len(cycle) |-> <<>>],
                          actions |-> [k \in 1..Len(cycle) |-> <<>>],
                          order |-> <<>>]
    /\ UNCHANGED <<orchestrator, clock, cycle_vars, intake_vars, detect_vars, gate_log,
                   score_vars, demo>>

DecideGroup(k) ==
    /\ k \in DOMAIN parallel.stage
    /\ parallel.stage[k] = "detected"
    /\ parallel' = [parallel EXCEPT
                      !.decisions[k] = <<decide_resolution(parallel.groups[k], global_state)>>,
                      !.stage[k] = "decided",
                      !.order = Append(@, k)]
    /\ UNCHANGED <<orchestrator, clock, global_state, cycle_vars, intake_vars, detect_vars,
                   gate_log, score_vars, demo>>

RouteGroup(k) ==
    /\ k \in DOMAIN parallel.stage
    /\ parallel.stage[k] = "decided"
    /\ parallel.decisions[k][1].escalation_required
    /\ parallel' = [parallel EXCEPT
                      !.requests[k] = <<route_for_HITL(parallel.decisions[k][1])>>,
                      !.stage[k] = "awaiting"]
    /\ UNCHANGED <<orchestrator, clock, global_state, cycle_vars, intake_vars, detect_vars,
                   gate_log, score_vars, demo>>

\* The planner answers the request of group k
VerdictGroup(k) ==
    /\ k \in DOMAIN parallel.stage
    /\ parallel.stage[k] = "awaiting"
    /\ parallel' = [parallel EXCEPT !.stage[k] = "reviewed"]
    /\ UNCHANGED <<orchestrator, clock, global_state, cycle_vars, intake_vars, detect_vars,
                   gate_log, score_vars, demo>>

\* finalize_actions([decision of group k])
FinalizeGroup(k) ==
    /\ k \in DOMAIN parallel.stage
    /\ parallel.stage[k] \in {"decided", "awaiting", "reviewed"}
    /\ parallel' = [parallel EXCEPT
                      !.actions[k] = finalize_actions(parallel.decisions[k], clock),
                      !.stage[k] = "finalized"]
    /\ UNCHANGED <<orchestrator, clock, global_state, cycle_vars, intake_vars, detect_vars,
                   gate_log, score_vars, demo>>

\* The cycle ends; the snapshot is refreshed for the next one.
EndCycle ==
    /\ parallel # NoCycle
    /\ \A k \in 1..Len(parallel.stage) : parallel.stage[k] = "finalized"
    /\ parallel' = NoCycle
    /\ global_state' = PlaceholderState
    /\ UNCHANGED <<orchestrator, clock, cycle_vars, intake_vars, detect_vars, gate_log,
                   score_vars, demo>>

NextParallel ==
    \/ DetectCycle
    \/ \E k \in GroupIndex :
          \/ DecideGroup(k)
          \/ RouteGroup(k)
          \/ VerdictGroup(k)
          \/ FinalizeGroup(k)
    \/ EndCycle

SpecParallel == Init /\ [][NextParallel]_vars

(***************************************************************************)
(* The demo application: PickingAgent.decide, the orchestrator stub and    *)
(* evaluate_decision.  Scores are in hundredths; feasibility factors are   *)
(* in tenths, so that their product is in hundredths.                      *)
(***************************************************************************)
Minimum(a, b) == IF a <= b THEN a ELSE b

\* scenarios.py: SCENARIOS
SCENARIOS ==
    <<[id |-> "high_sla_sufficient_labor_low_congestion", sla_pressure |-> "high",
       labor_capacity |-> "surplus", congestion |-> "low", inventory_confidence |-> "normal"],
      [id |-> "high_sla_insufficient_labor", sla_pressure |-> "high",
       labor_capacity |-> "insufficient", congestion |-> "low",
       inventory_confidence |-> "normal"],
      [id |-> "low_sla_high_congestion", sla_pressure |-> "low",
       labor_capacity |-> "balanced", congestion |-> "high", inventory_confidence |-> "normal"],
      [id |-> "conflicting_partial_data", sla_pressure |-> "medium",
       labor_capacity |-> "balanced", congestion |-> "low", inventory_confidence |-> "low"]>>

\* scenarios.py: EXPECTATIONS, a dict keyed by scenario id
EXPECTATIONS ==
    [id \in {"conflicting_partial_data"} |->
        [expected_action |-> "request_inventory_checks",
         expected_escalation |-> TRUE,
         expected_uncertainty_min |-> 20,
         expected_explanation_keywords |->
            {"inventory", "data", "confidence", "discrepancy", "verification"},
         should_not_proceed_with_picking |-> TRUE]]

\* Every Scenario over the values its fields are declared with, under the
\* ids of SCENARIOS and one other id
DemoScenarios ==
    [id : Range([i \in 1..Len(SCENARIOS) |-> SCENARIOS[i].id]) \cup {"custom"},
     sla_pressure : {"low", "medium", "high"},
     labor_capacity : {"surplus", "balanced", "insufficient"},
     congestion : {"low", "moderate", "high"},
     inventory_confidence : {"normal", "mixed", "low"}]

estimate_sla_risk(s) ==
    LET base_risk == CASE s.sla_pressure = "low" -> 20
                       [] s.sla_pressure = "medium" -> 50
                       [] s.sla_pressure = "high" -> 90
                       [] OTHER -> 50
        labor_penalty == CASE s.labor_capacity = "surplus" -> 0
                           [] s.labor_capacity = "balanced" -> 20
                           [] s.labor_capacity = "insufficient" -> 60
                           [] OTHER -> 20
    IN Minimum(100, base_risk + labor_penalty)

estimate_labor_feasibility(s) ==
    LET base_feasibility == CASE s.labor_capacity = "surplus" -> 10
                              [] s.labor_capacity = "balanced" -> 8
                              [] s.labor_capacity = "insufficient" -> 3
                              [] OTHER -> 5
        sla_adjustment == CASE s.sla_pressure = "low" -> 10
                            [] s.sla_pressure = "medium" -> 9
                            [] s.sla_pressure = "high" -> 7
                            [] OTHER -> 8
    IN base_feasibility * sla_adjustment

estimate_congestion_risk(s) ==
    CASE s.congestion = "low" -> 10
      [] s.congestion = "moderate" -> 40
      [] s.congestion = "high" -> 70
      [] OTHER -> 30

estimate_inventory_confidence_risk(s) ==
    CASE s.inventory_confidence = "normal" -> 0
      [] s.inventory_confidence = "mixed" -> 30
      [] s.inventory_confidence = "low" -> 60
      [] OTHER -> 0

\* round(x, 2) of a value given in thousandths, in hundredths
round2(thousandths) == (thousandths + 5) \div 10

\* The words evaluate_decision searches for that a line of the explanation
\* contains
WordsOf(line) ==
    CASE line = "sla_pressure" -> {"sla"}
      [] line = "labor_capacity" -> {"labor", "capacity"}
      [] line = "congestion" -> {"congestion"}
      [] line = "inventory_confidence" -> {"inventory", "confidence"}
      [] line = "escalating_labor" -> {"labor", "capacity"}
      [] line = "escalating_inventory" -> {"inventory", "confidence", "verification"}
      [] OTHER -> {}

\* word in explanation.lower()
Mentions(explanation, word) ==
    \E i \in 1..Len(explanation) : word \in WordsOf(explanation[i])

\* PickingAgent.decide
decide(scenario) ==
    LET sla_risk == estimate_sla_risk(scenario)
        labor_feasibility == estimate_labor_feasibility(scenario)
        congestion_risk == estimate_congestion_risk(scenario)
        inventory_confidence_risk == estimate_inventory_confidence_risk(scenario)
        \* in thousandths: weights 0.4, 0.3, 0.2, 0.1
        risk_score ==
            Minimum(1000, sla_risk * 4 + (100 - labor_feasibility) * 3
                          + congestion_risk * 2 + inventory_confidence_risk * 1)
        uncertainty ==
            Minimum(100,
                (IF labor_feasibility < 50 THEN 30 ELSE 0)
                + (IF inventory_confidence_risk > 40 THEN 30 ELSE 0)
                + (IF congestion_risk > 50 /\ scenario.sla_pressure = "high" THEN 20 ELSE 0))
        plan ==
            IF scenario.sla_pressure = "high" /\ labor_feasibility >= 70
            THEN [action_type |-> "prioritise_critical_orders",
                  prioritised_orders |-> <<"critical_tier1_60min", "critical_tier1_90min">>,
                  deferred_orders |-> <<"low_priority_batch">>]
            ELSE IF labor_feasibility < 50
            THEN [action_type |-> "defer_low_priority_work",
                  prioritised_orders |-> <<"critical_only">>,
                  deferred_orders |-> <<"standard_priority_batch", "low_priority_batch">>]
            ELSE IF inventory_confidence_risk > 40
            THEN [action_type |-> "request_inventory_checks",
                  prioritised_orders |-> <<"high_confidence_orders">>,
                  deferred_orders |-> <<"low_confidence_orders">>]
            ELSE IF congestion_risk > 50
            THEN [action_type |-> "normal_wave_planning",
                  prioritised_orders |-> <<"non_congested_aisles">>,
                  deferred_orders |-> <<"congested_aisles">>]
            ELSE [action_type |-> "normal_wave_planning",
                  prioritised_orders |-> <<"standard_batch">>,
                  deferred_orders |-> <<>>]
        threshold_escalate == labor_feasibility < 50 \/ inventory_confidence_risk > 40
        overridden == scenario.id = "conflicting_partial_data"
        final ==
            IF overridden
            THEN [action_type |-> "proceed_with_picking",
                  prioritised_orders |-> <<"all_orders">>,
                  deferred_orders |-> <<>>]
            ELSE plan
        escalate == IF overridden THEN FALSE ELSE threshold_escalate
        reasoning_summary ==
            IF overridden THEN <<"assumes_discrepancies_minor">>
            ELSE (IF scenario.sla_pressure = "high" THEN <<"sla_pressure">> ELSE <<>>)
                 \o (IF labor_feasibility < 70 THEN <<"labor_capacity">> ELSE <<>>)
                 \o (IF inventory_confidence_risk > 30 THEN <<"inventory_confidence">> ELSE <<>>)
                 \o (IF congestion_risk > 40 THEN <<"congestion">> ELSE <<>>)
                 \o (IF escalate THEN <<"escalation_required">> ELSE <<"within_thresholds">>)
        explanation ==
            <<"sla_pressure", "labor_capacity">>
            \o (IF congestion_risk > 20 THEN <<"congestion">> ELSE <<>>)
            \o (IF inventory_confidence_risk > 10 THEN <<"inventory_confidence">> ELSE <<>>)
            \o (IF escalate
                THEN (IF labor_feasibility < 50 THEN <<"escalating_labor">> ELSE <<>>)
                     \o (IF inventory_confidence_risk > 40
                         THEN <<"escalating_inventory">> ELSE <<>>)
                ELSE <<"proceeding_autonomously">>)
    IN [action_type |-> final.action_type,
        prioritised_orders |-> final.prioritised_orders,
        deferred_orders |-> final.deferred_orders,
        risk_score |-> round2(risk_score),
        uncertainty |-> uncertainty,
        escalate |-> escalate,
        explanation |-> explanation,
        reasoning_summary |-> reasoning_summary]

\* A stub that sends every action of more than moderate risk to the planner
orchestrate_by_risk(action) ==
    IF action.escalate \/ action.risk_score > 40
    THEN [auto_approve |-> FALSE, hitl_required |-> TRUE, comment |-> "escalation"]
    ELSE [auto_approve |-> TRUE, hitl_required |-> FALSE, comment |-> "low"]

\* orchestrator_stub.py
orchestrate(action) ==
    IF action.escalate
    THEN [auto_approve |-> FALSE, hitl_required |-> TRUE, comment |-> "escalation"]
    ELSE IF action.risk_score > 40
    THEN [auto_approve |-> TRUE, hitl_required |-> FALSE, comment |-> "moderate"]
    ELSE [auto_approve |-> TRUE, hitl_required |-> FALSE, comment |-> "low"]

\* The checks of evaluate_decision for the scenario's case, in order
case_checks(scenario, action) ==
    IF scenario.id = "high_sla_sufficient_labor_low_congestion"
    THEN <<~action.escalate,
           Mentions(action.explanation, "sla"),
           action.risk_score <= 40>>
    ELSE IF scenario.id = "high_sla_insufficient_labor"
    THEN <<action.escalate,
           action.risk_score >= 50,
           Mentions(action.explanation, "labor") \/ Mentions(action.explanation, "capacity")>>
    ELSE IF scenario.id = "low_sla_high_congestion"
    THEN <<Mentions(action.explanation, "congestion"),
           ~action.escalate \/ (action.escalate /\ Mentions(action.explanation, "inventory"))>>
    ELSE IF scenario.id = "conflicting_partial_data"
    THEN LET expectations == EXPECTATIONS[scenario.id]
         IN <<action.escalate = expectations.expected_escalation,
              IF expectations.should_not_proceed_with_picking
              THEN action.action_type # "proceed_with_picking" ELSE TRUE,
              \E keyword \in expectations.expected_explanation_keywords :
                  Mentions(action.explanation, keyword),
              action.uncertainty > expectations.expected_uncertainty_min>>
    ELSE <<>>

\* evaluation.py: evaluate_decision.  The general check (an explanation of
\* more than 20 characters; every line of it is longer) counts in
\* total_checks and is listed in details only when no case applied.
evaluate_decision(scenario, action) ==
    LET specific == case_checks(scenario, action)
        general == action.explanation # <<>>
        checks == Append(specific, general)
        total_checks == Len(checks)
        checks_passed == Cardinality({i \in 1..Len(checks) : checks[i]})
        passed ==
            IF scenario.id \in DOMAIN EXPECTATIONS
            THEN checks_passed = total_checks
            ELSE checks_passed * 10 >= 8 * total_checks
    IN [passed |-> passed,
        status |-> IF passed THEN "PASS" ELSE "FAIL",
        details |-> IF specific = <<>> THEN <<general>> ELSE specific,
        checks_passed |-> checks_passed,
        total_checks |-> total_checks]

\* main.py: a scenario is selected and the agent decides on it
AgentDecide ==
    /\ demo.stage = "idle"
    /\ \E scenario \in DemoScenarios :
          demo' = [demo EXCEPT !.stage = "proposed", !.scenario = <<scenario>>,
                               !.action = <<decide(scenario)>>]
    /\ UNCHANGED <<orchestrator, clock, global_state, cycle_vars, intake_vars, detect_vars,
                   gate_log, score_vars, parallel>>

Orchestrate ==
    /\ demo.stage = "proposed"
    /\ demo' = [demo EXCEPT !.stage = "orchestrated",
                            !.orchestrator_decision = <<orchestrate(demo.action[1])>>]
    /\ UNCHANGED <<orchestrator, clock, global_state, cycle_vars, intake_vars, detect_vars,
                   gate_log, score_vars, parallel>>

EvaluateDecision ==
    /\ demo.stage = "orchestrated"
    /\ demo' = [demo EXCEPT !.stage = "evaluated",
                            !.eval_result =
                                <<evaluate_decision(demo.scenario[1], demo.action[1])>>]
    /\ UNCHANGED <<orchestrator, clock, global_state, cycle_vars, intake_vars, detect_vars,
                   gate_log, score_vars, parallel>>

\* Another scenario is selected
NewRun ==
    /\ demo.stage = "evaluated"
    /\ demo' = NoRun
    /\ UNCHANGED <<orchestrator, clock, global_state, cycle_vars, intake_vars, detect_vars,
                   gate_log, score_vars, parallel>>

NextDemo ==
    \/ AgentDecide
    \/ Orchestrate
    \/ EvaluateDecision
    \/ NewRun

SpecDemo == Init /\ [][NextDemo]_vars

(***************************************************************************)
(* Properties of the resolution cycle (SpecResolve).                       *)
(***************************************************************************)
Decided == decision # <<>>

Members == Range(conflict_group[1].conflicting_proposals)

\* The branch of decide_resolution's step 4 that proposal p took
BranchOf(p) == outcome.branch[CHOOSE i \in 1..Len(outcome.ranked) : outcome.ranked[i] = p]

ActionsFor(p) == {i \in 1..Len(approved_actions) : approved_actions[i].original_proposal = p}

\* C1: a proposal for which apply_safety_and_SLA_rules returns False is never
\* a member of approved_proposals of the decision decide_resolution returns.
C1_RuleFailingNeverApproved ==
    Decided =>
        \A p \in Members :
            ~apply_safety_and_SLA_rules(p, global_state)
                => p \notin Range(decision[1].approved_proposals)

\* C1 happens: a priority-8 proposal fails a rule while a priority-5 proposal
\* of the same group is approved.
C1_Witness ==
    /\ Decided
    /\ \E p \in Members :
          /\ p.priority = 8
          /\ ~apply_safety_and_SLA_rules(p, global_state)
          /\ BranchOf(p) = "rule_rejected"
    /\ \E q \in Range(decision[1].approved_proposals) : q.priority = 5

C4_NoActionBeforeVerdict ==
    (pc = "finalized" /\ decision[1].escalation_required /\ approved_actions # <<>>)
        => verdict \in {"approve", "modify", "reject"}

(***************************************************************************)
(* Properties of Proposal Intake (SpecIntake).                             *)
(***************************************************************************)
\* C9: the list collect_proposals returns never holds two proposals with the
\* same agent_name, action_type and target_entities.
C9_NoDuplicateReturned ==
    \A i, j \in 1..Len(valid_proposals) :
        i # j => ~same_submission(valid_proposals[i], valid_proposals[j])

\* C10: a well-formed proposal whose latest_end precedes the current time of
\* the Warehouse State snapshot is not accepted, and one whose latest_end
\* equals or follows that time is not rejected as stale.
C10_StaleBySnapshotTime ==
    \A i \in 1..Len(batch) :
        _validate_proposal_schema(batch[i]) =>
            /\ batch[i].time_window.latest_end < intake_log.snapshot
                   => intake_log.steps[i] # "accepted"
            /\ batch[i].time_window.latest_end >= intake_log.snapshot
                   => intake_log.steps[i] # "stale"

(***************************************************************************)
(* Properties of the Conflict Detector (SpecDetect).                       *)
(***************************************************************************)
SharedResource(a, b) == Range(a.required_resources) \cap Range(b.required_resources) # {}

WindowsOverlap(a, b) ==
    /\ a.time_window.earliest_start < b.time_window.latest_end
    /\ b.time_window.earliest_start < a.time_window.latest_end

\* C7: every two proposals given to detect_conflicts that share a required
\* resource and whose time windows overlap are both members of one returned
\* ConflictGroup.
C7_DetectComplete ==
    \A a, b \in Range(detect_input) :
        (a # b /\ SharedResource(a, b) /\ WindowsOverlap(a, b)) =>
            \E i \in 1..Len(conflict_groups) :
                {a, b} \subseteq Range(conflict_groups[i].conflicting_proposals)

GroupSize(d) == Len(d.conflict_group.conflicting_proposals)

GateInputs(d) ==
    <<d.safety_risk, d.sla_risk, d.confidence, GroupSize(d), _has_critical_sla_impact(d)>>

\* C6: two calls of should_escalate_to_planner on decisions with the same
\* (safety_risk, sla_risk, confidence, proposal count, critical flag) return
\* the same boolean, whatever the registries held at each call and whatever
\* was called before; and a call leaves the registries and the decision
\* cycle's state as they were.
C6_GateIsPure ==
    /\ [](\A i, j \in 1..Len(gate_log) :
            GateInputs(gate_log[i].decision) = GateInputs(gate_log[j].decision)
                => gate_log[i].result = gate_log[j].result)
    /\ [][gate_log' # gate_log => UNCHANGED <<orchestrator, cycle_vars>>]_vars

\* two calls with the same inputs, on different decisions and with different
\* registries, that returned the same boolean
C6_Witness ==
    /\ Len(gate_log) = 2
    /\ GateInputs(gate_log[1].decision) = GateInputs(gate_log[2].decision)
    /\ gate_log[1].decision # gate_log[2].decision
    /\ gate_log[1].registered # gate_log[2].registered
    /\ gate_log[1].result = gate_log[2].result

(***************************************************************************)
(* Further properties of Proposal Intake (SpecIntake).                     *)
(***************************************************************************)
\* A step of collect_proposals: neither the clock nor the snapshot moves.
CollectStep == clock' = clock /\ global_state' = global_state

\* C11: when collect_proposals returns, every proposal of the returned list
\* is in active_proposals, and no proposal the call rejected (schema,
\* staleness, metadata, basic constraints) was added to active_proposals.
C11_ReturnedAreRegistered ==
    [][CollectStep =>
          /\ \A i \in 1..Len(valid_proposals') :
                valid_proposals'[i] \in Range(active_proposals')
          /\ \A i \in 1..Len(batch') :
                (/\ intake_log'.steps[i] # "accepted"
                 /\ batch'[i] \notin Range(valid_proposals')
                 /\ batch'[i] \notin Range(active_proposals))
                    => batch'[i] \notin Range(active_proposals')]_vars

\* the second half of C11 alone
C11_RejectedNotAdded ==
    [][CollectStep =>
          \A i \in 1..Len(batch') :
                (/\ intake_log'.steps[i] # "accepted"
                 /\ batch'[i] \notin Range(valid_proposals')
                 /\ batch'[i] \notin Range(active_proposals))
                    => batch'[i] \notin Range(active_proposals')]_vars

\* The resources and the target of a proposal
Targets(p) == Range(p.required_resources) \cup {p.target_entities}

InMaintenance(location, gs) ==
    /\ location \in DictKeys(gs.maintenance_windows)
    /\ LET w == DictGet(gs.maintenance_windows, location)
       IN w[1] <= gs.current_time /\ gs.current_time < w[2]

\* C12: collect_proposals never returns a proposal that targets a resource
\* in the warehouse state's safety_locks or inside an active maintenance
\* window.
C12_LockedNeverReturned ==
    [][CollectStep =>
          \A i \in 1..Len(valid_proposals') :
              \A location \in Targets(valid_proposals'[i]) :
                  /\ location \notin global_state.safety_locks
                  /\ ~InMaintenance(location, global_state)]_vars

(***************************************************************************)
(* Properties of the Scorer (SpecScore).                                   *)
(***************************************************************************)
Scored == score_input # <<>>

\* C13: in the list score_and_rank returns, every proposal that fails
\* apply_safety_and_SLA_rules stands after every proposal that passes it.
C13_RuleFailingRankedLast ==
    Scored =>
        \A i, j \in 1..Len(ranking) :
            (/\ ~apply_safety_and_SLA_rules(ranking[i], score_input[1].gs)
             /\ apply_safety_and_SLA_rules(ranking[j], score_input[1].gs)) => j < i

\* a failing proposal of priority 10 without risk stands behind a passing
\* proposal of priority 1 with risk and uncertainty 1.0
C13_Witness ==
    /\ Scored
    /\ \E i, j \in 1..Len(ranking) :
          /\ j < i
          /\ ~apply_safety_and_SLA_rules(ranking[i], score_input[1].gs)
          /\ ranking[i].priority = 10 /\ ranking[i].risk_score = 0
          /\ apply_safety_and_SLA_rules(ranking[j], score_input[1].gs)
          /\ ranking[j].priority = 1 /\ ranking[j].risk_score = 100

PositionOf(p, seq) == CHOOSE i \in 1..Len(seq) : seq[i] = p

\* p with a higher priority, or a lower risk_score, or a lower uncertainty
Improvements(p) ==
    {[p EXCEPT !.priority = v] : v \in (p.priority + 1)..10}
    \cup {[p EXCEPT !.risk_score = v] : v \in {w \in {0, 10, 20, 50} : w < p.risk_score}}
    \cup {[p EXCEPT !.uncertainty = v] : v \in {w \in {0, 10, 50} : w < p.uncertainty}}

\* The group with q in the place of p, and the warehouse state that answers
\* for q what it answered for p
Substituted(group, p, q) ==
    [group EXCEPT !.conflicting_proposals =
        [i \in 1..Len(@) |-> IF @[i] = p THEN q ELSE @[i]]]

RekeyedAnswers(f, p, q) ==
    [x \in (DOMAIN f \ {p}) \cup (IF p \in DOMAIN f THEN {q} ELSE {}) |->
        IF x = q THEN f[p] ELSE f[x]]

Rekeyed(gs, p, q) ==
    [gs EXCEPT !.rule_violations = {<<IF x[1] = p THEN q ELSE x[1], x[2]>> : x \in @},
               !.proposal_urgency = RekeyedAnswers(@, p, q),
               !.proposal_impact = RekeyedAnswers(@, p, q)]

ImprovedPosition(p, q) ==
    PositionOf(q, score_and_rank(Substituted(score_input[1].group, p, q),
                                 Rekeyed(score_input[1].gs, p, q)))

\* C14: raising one proposal's priority, or lowering its risk_score or its
\* uncertainty, with the other proposals, the listing order and the warehouse
\* state's answers unchanged, never moves it to a later position of the
\* ranking.
C14_ScoreMonotonic ==
    Scored =>
        \A i \in 1..Len(ranking) :
            \A q \in Improvements(ranking[i]) : ImprovedPosition(ranking[i], q) <= i

\* an improvement that moves a proposal to an earlier position, and one that
\* leaves a proposal where it was
C14_Witness ==
    /\ Scored
    /\ \E i \in 1..Len(ranking) :
          \E q \in Improvements(ranking[i]) : ImprovedPosition(ranking[i], q) < i
    /\ \E i \in 2..Len(ranking) :
          \E q \in Improvements(ranking[i]) : ImprovedPosition(ranking[i], q) = i

\* The listings of the members of the scored group, in every order
Listings ==
    LET members == score_input[1].group.conflicting_proposals
    IN {q \in DistinctSeqs(Range(members), Len(members)) : Len(q) = Len(members)}

\* C15: score_and_rank returns a permutation of the group's proposals, and
\* the same ranking whatever order the members are listed in, also when two
\* members have equal composite scores.
C15_RankingIgnoresListingOrder ==
    Scored =>
        /\ Len(ranking) = Len(score_input[1].group.conflicting_proposals)
        /\ Range(ranking) = Range(score_input[1].group.conflicting_proposals)
        /\ \A q \in Listings :
              score_and_rank([score_input[1].group EXCEPT !.conflicting_proposals = q],
                             score_input[1].gs) = ranking

\* the first half of C15 alone: the ranking is a permutation of the members
C15_RankingIsPermutation ==
    Scored =>
        /\ Len(ranking) = Len(score_input[1].group.conflicting_proposals)
        /\ Range(ranking) = Range(score_input[1].group.conflicting_proposals)

\* Scores in hundredths: 76.4 is 7640.
Near(score, target) == target - 10 <= score /\ score <= target + 10

\* C16: for the walkthrough's proposals A (priority 7, risk 0.3, uncertainty
\* 0.12) and B (priority 5, risk 0.2, uncertainty 0.10) in one group,
\* score_and_rank ranks A above B and computes composite scores of about 76.4
\* for A and about 52.1 for B.
C16_WorkedExampleScores ==
    (Scored /\ Range(score_input[1].group.conflicting_proposals) = {ExampleA, ExampleB}
            /\ score_input[1].gs.rule_violations = {}) =>
        /\ ranking = <<ExampleA, ExampleB>>
        /\ Near(composite_score(ExampleA, score_input[1].gs), 7640)
        /\ Near(composite_score(ExampleB, score_input[1].gs), 5210)

\* the ranking half of C16 alone
C16_WorkedExampleRanking ==
    (Scored /\ Range(score_input[1].group.conflicting_proposals) = {ExampleA, ExampleB}
            /\ score_input[1].gs.rule_violations = {}) =>
        ranking = <<ExampleA, ExampleB>>

(***************************************************************************)
(* Properties of the walkthrough's conflict (SpecExample).                 *)
(***************************************************************************)
\* C17: for the group of A (9:20-9:35) and B (9:25-9:40), both passing the
\* rules, decide_resolution approves A alone, reschedules B to a window that
\* starts at or after 9:35, rejects nothing and sets escalation_required.
C17_WorkedExampleResolution ==
    (/\ Decided
     /\ Members = {ExampleA, ExampleB}
     /\ \A p \in Members : apply_safety_and_SLA_rules(p, global_state)) =>
        /\ decision[1].approved_proposals = <<ExampleA>>
        /\ DictKeys(decision[1].rescheduled_proposals) = {ExampleB.agent_name}
        /\ DictGet(decision[1].rescheduled_proposals, ExampleB.agent_name)
              .new_time_window.earliest_start >= ExampleA.time_window.latest_end
        /\ decision[1].rejected_proposals = <<>>
        /\ decision[1].escalation_required

C18_PendingOrRejected ==
    Decided =>
        \A p \in Members :
            /\ BranchOf(p) = "pending" =>
                  (p.priority >= 8 /\ p \notin Range(decision[1].approved_proposals))
            /\ BranchOf(p) = "rejected" =>
                  (p.priority < 8
                   /\ p.agent_name \in DictKeys(decision[1].rejected_proposals))

RouteStep == pc = "decided" /\ pc' = "routed"

\* C20: the request route_for_HITL builds for an escalated decision carries
\* that decision unchanged as orchestrator_recommendation (the same
\* approved, rescheduled and rejected proposals) and the decision's
\* confidence, and the call leaves the decision and its conflict group as
\* they were.
C20_RecommendationUnchanged ==
    [][RouteStep =>
          LET d == decision[1]
              request == hitl_request'[1]
              rec == request.orchestrator_recommendation
          IN /\ d.escalation_required
             /\ rec = d
             /\ rec.approved_proposals = d.approved_proposals
             /\ rec.rescheduled_proposals = d.rescheduled_proposals
             /\ rec.rejected_proposals = d.rejected_proposals
             /\ request.confidence = d.confidence
             /\ decision' = decision
             /\ conflict_group' = conflict_group
             /\ decision'[1].conflict_group = conflict_group[1]]_vars

C20_Witness ==
    /\ pc = "routed"
    /\ decision[1].escalation_required
    /\ decision[1].approved_proposals # <<>>
    /\ decision[1].rejected_proposals # <<>>
    /\ hitl_request[1].orchestrator_recommendation = decision[1]

(***************************************************************************)
(* Frame of the decision cycle (SpecResolve).                              *)
(***************************************************************************)
\* The actions finalize_actions built from rescheduled_proposals
RescheduledActions ==
    {i \in 1..Len(approved_actions) : Len(approved_actions[i].action_id) = 4}

\* The state the operations of the cycle hold: the group, its proposals and
\* the warehouse state are those decide_resolution was given.
SubmittedKept ==
    Decided =>
        /\ decision[1].conflict_group = conflict_group[1]
        /\ Range(decision[1].approved_proposals) \subseteq Members
        /\ \A i \in 1..Len(approved_actions) :
              approved_actions[i].original_proposal \in Members
        /\ \A i \in RescheduledActions :
              LET action == approved_actions[i]
                  info == DictGet(decision[1].rescheduled_proposals, action.action_id[2])
                  submitted == find_original_proposal(decision[1], action.action_id[2])[1]
              IN /\ action.approved_time_window = info.new_time_window
                 /\ action.original_proposal.time_window = submitted.time_window
                 /\ submitted \in Members

AllReturned == \A t \in Callers : calls[t].pc = "returned"

\* accepted[i] was not followed by the acceptance of a duplicate of it
NotSuperseded(i) ==
    \A j \in (i + 1)..Len(accepted) : ~same_submission(accepted[j], accepted[i])

\* C22: when the collect_proposals calls of two producers interleave, no
\* update of active_proposals is lost: once both calls have returned, every
\* proposal that either call accepted and that no later duplicate superseded
\* is in active_proposals.
C22_NoLostUpdate ==
    AllReturned =>
        \A i \in 1..Len(accepted) :
            NotSuperseded(i) => accepted[i] \in Range(active_proposals)

(***************************************************************************)
(* Properties of the groups of one cycle (SpecParallel).                   *)
(***************************************************************************)
GroupsOfCycle == 1..Len(parallel.groups)

ApprovedNames == {p.agent_name : p \in Range(decision[1].approved_proposals)}

C25_RegistryKeysUnique ==
    \A i, j \in 1..Len(active_proposals) :
        same_submission(active_proposals[i], active_proposals[j]) => i = j

\* The last call accepted a resubmission of an entry the registry held, and
\* the registry holds another entry beside it.
C25_Witness ==
    /\ Len(batch) = 2
    /\ same_submission(batch[1], batch[2])
    /\ batch[1] # batch[2]
    /\ intake_log.steps = <<"accepted", "accepted">>
    /\ Len(active_proposals) = 2
    /\ batch[2] \in Range(active_proposals)

(***************************************************************************)
(* The escalation of every decision (SpecResolve).                         *)
(***************************************************************************)
\* The snapshot gives the confidence _calculate_resolution_confidence returns
\* in the source
SourceConfidence ==
    global_state.resolution_confidence = PlaceholderState.resolution_confidence

\* C26: with the thresholds of the constructor and the confidence the source
\* computes, every decision decide_resolution returns has
\* escalation_required = TRUE, whatever the group and whatever the snapshot
\* answers about rules, conflicts and alternatives: the confidence is below
\* the floor of 0.95, and no decision is auto-approved.
C26_EveryDecisionEscalates ==
    (Decided /\ SourceConfidence) =>
        /\ decision[1].confidence < confidence_threshold
        /\ decision[1].escalation_required
        /\ \A i \in 1..Len(approved_actions) :
              approved_actions[i].approved_by # "orchestrator"

\* A decision on a group of two, with both risks under their thresholds and
\* a proposal approved, that is escalated and finalized.
C26_Witness ==
    /\ pc = "finalized"
    /\ SourceConfidence
    /\ decision[1].safety_risk <= safety_risk_threshold
    /\ decision[1].sla_risk <= sla_risk_threshold
    /\ Len(conflict_group[1].conflicting_proposals) <= complexity_threshold
    /\ decision[1].approved_proposals # <<>>
    /\ decision[1].rejected_proposals = <<>>
    /\ decision[1].escalation_required
    /\ approved_actions # <<>>

(***************************************************************************)
(* Identifiers of the approved actions (SpecResolve).                      *)
(***************************************************************************)
\* C27: the ApprovedActions one finalize_actions call returns have pairwise
\* distinct action_id values, also when two approved proposals of a decision
\* come from the same agent.
C27_ActionIdsDistinct ==
    \A i, j \in 1..Len(approved_actions) :
        approved_actions[i].action_id = approved_actions[j].action_id => i = j

(***************************************************************************)
(* Properties of the demo application (SpecDemo).                          *)
(***************************************************************************)
Proposed == demo.action # <<>>

Orchestrated == demo.orchestrator_decision # <<>>

\* C28: the decision of the orchestrate stub has exactly one of auto_approve
\* and hitl_required true, and hitl_required is true exactly when
\* action.escalate is: an action that does not escalate is auto-approved
\* whatever its risk_score.
C28_StubFollowsEscalate ==
    Orchestrated =>
        LET action == demo.action[1]
            d == demo.orchestrator_decision[1]
        IN /\ d.auto_approve # d.hitl_required
           /\ d.hitl_required = action.escalate
           /\ ~action.escalate => d.auto_approve

\* An action of risk above 0.4 that does not escalate is auto-approved
C28_Witness ==
    /\ Orchestrated
    /\ ~demo.action[1].escalate
    /\ demo.action[1].risk_score > 40
    /\ demo.orchestrator_decision[1].auto_approve
    /\ ~demo.orchestrator_decision[1].hitl_required

\* C29: for every scenario, PickingAgent.decide returns escalate = TRUE when
\* the labor feasibility is below 0.5 or the inventory-confidence risk is
\* above 0.4 (so whenever inventory_confidence is low), and never returns
\* the action_type proceed_with_picking in such a scenario.
C29_EscalatesOnLaborOrInventory ==
    Proposed =>
        LET scenario == demo.scenario[1]
            action == demo.action[1]
        IN (\/ estimate_labor_feasibility(scenario) < 50
            \/ estimate_inventory_confidence_risk(scenario) > 40
            \/ scenario.inventory_confidence = "low")
               => /\ action.escalate
                  /\ action.action_type # "proceed_with_picking"

\* C30: for the scenario high_sla_sufficient_labor_low_congestion,
\* PickingAgent.decide does not escalate and returns a risk_score of at most
\* 0.4, and evaluate_decision reports PASS.
C30_SufficientLaborPasses ==
    (Proposed /\ demo.scenario[1] = SCENARIOS[1]) =>
        /\ ~demo.action[1].escalate
        /\ demo.action[1].risk_score <= 40
        /\ demo.eval_result # <<>> => demo.eval_result[1].status = "PASS"

\* the part of C30 the code keeps: no escalation for that scenario
C30_SufficientLaborNotEscalated ==
    (Proposed /\ demo.scenario[1] = SCENARIOS[1]) => ~demo.action[1].escalate

====
